---- MODULE Spec2Model ----
(***************************************************************************)
(* easy-2fa (src/src/index.ts): HOTP/TOTP code derivation and verification, *)
(* seed generation, otpauth URL construction and QR code generation.        *)
(*                                                                          *)
(* Strings are sequences of one-character strings.  A JavaScript optional   *)
(* value is a set: {} is undefined, {v} is the value v.  A call that may    *)
(* throw returns a record [tag |-> "ok" | "throw", val |-> ...].            *)
(* The collaborators (HMAC-SHA1, the clock, the random source, the QR       *)
(* renderer) are the environment: the keyed hash is an arbitrary but fixed  *)
(* function chosen in Init, the others are inputs of the actions.           *)
(***************************************************************************)
EXTENDS Integers, Sequences, FiniteSets, TLC

VARIABLES
    hmac,      \* the keyed hash: <<key, message>> -> 20-byte digest
    now,       \* Date.now(), milliseconds
    op,        \* the operation that ran last ("none" before any)
    args,      \* its arguments
    ret,       \* what it returned (or threw)
    aux,       \* what it computed on the way (offset, counters tried, ...)
    qrCalls    \* the texts handed to qr.toDataURL by the running generateQRCode

vars == <<hmac, now, op, args, ret, aux, qrCalls>>

(***************************************************************************)
(* Bounds of the model                                                      *)
(***************************************************************************)
MaxLen == 11          \* code lengths 1..MaxLen
MaxCounter == 1       \* HOTP counters 0..MaxCounter
MaxSeconds == 4       \* the clock runs to MaxSeconds seconds
MaxStep == 3          \* TOTP steps 1..MaxStep
MaxSeedLen == 3       \* generateSeed lengths 0..MaxSeedLen
MaxStrLen == 2        \* issuer, account: at most MaxStrLen characters
MaxSecretLen == 2     \* secrets given to generateURL: at most MaxSecretLen

(***************************************************************************)
(* Optional values, results                                                 *)
(***************************************************************************)
None == {}
Some(v) == {v}
OrDefault(o, d) == IF o = {} THEN d ELSE CHOOSE v \in o : TRUE
Ok(v) == [tag |-> "ok", val |-> v]
Throw(e) == [tag |-> "throw", val |-> e]

Max(a, b) == IF a >= b THEN a ELSE b
Min(a, b) == IF a <= b THEN a ELSE b

(***************************************************************************)
(* 32-bit integer operators of JavaScript (&, |, <<)                        *)
(***************************************************************************)
RECURSIVE BitAndNat(_, _)
BitAndNat(a, b) ==
    IF a = 0 \/ b = 0 THEN 0
    ELSE (a % 2) * (b % 2) + 2 * BitAndNat(a \div 2, b \div 2)

RECURSIVE BitOrNat(_, _)
BitOrNat(a, b) ==
    IF a = 0 THEN b
    ELSE IF b = 0 THEN a
    ELSE Max(a % 2, b % 2) + 2 * BitOrNat(a \div 2, b \div 2)

\* the low 31 bits of a 32-bit two's-complement integer
Low31(a) == IF a < 0 THEN (a + 2147483647) + 1 ELSE a

\* a | b on 32-bit integers
BitOr32(a, b) ==
    LET low == BitOrNat(Low31(a), Low31(b))
    IN  IF a < 0 \/ b < 0 THEN (low - 2147483647) - 1 ELSE low

\* x << n on 32-bit integers, for a byte-sized x >= 0 and 1 <= n <= 24:
\* the bits shifted past bit 31 are lost and bit 31 is the sign
Shl32(x, n) ==
    LET kept == x % (2 ^ (32 - n))
    IN  IF kept >= 2 ^ (31 - n) THEN (kept - 2 ^ (32 - n)) * (2 ^ n)
        ELSE kept * (2 ^ n)

(***************************************************************************)
(* Text                                                                     *)
(***************************************************************************)
Digits == <<"0", "1", "2", "3", "4", "5", "6", "7", "8", "9">>
HexDigits == Digits \o <<"a", "b", "c", "d", "e", "f">>

IsDigit(ch) == \E k \in 1..10 : Digits[k] = ch
DigitVal(ch) == (CHOOSE k \in 1..10 : Digits[k] = ch) - 1
HexVal(ch) == (CHOOSE k \in 1..16 : HexDigits[k] = ch) - 1

\* Number.prototype.toString() of an integer
RECURSIVE NatToString(_)
NatToString(n) ==
    IF n < 10 THEN <<Digits[n + 1]>>
    ELSE Append(NatToString(n \div 10), Digits[(n % 10) + 1])

\* the most negative 32-bit integer has no positive counterpart in 32 bits
toString(n) ==
    IF n >= 0 THEN NatToString(n)
    ELSE IF n = (0 - 2147483647) - 1 THEN <<"-">> \o NatToString(214748364) \o <<"8">>
    ELSE <<"-">> \o NatToString(0 - n)

\* String.prototype.slice(start) with one argument
slice(s, start) ==
    LET n == Len(s)
        from == IF start < 0 THEN Max(n + start, 0) ELSE Min(start, n)
    IN  SubSeq(s, from + 1, n)

\* String.prototype.padStart(targetLength, padString) with a one-character pad
padStart(s, targetLength, ch) ==
    IF Len(s) >= targetLength THEN s
    ELSE [k \in 1..(targetLength - Len(s)) |-> ch] \o s

\* what parseInt makes of the empty string or of text that starts with no digit
NaN == 0 - 1

RECURSIVE ParseDigits(_, _)
ParseDigits(s, acc) ==
    IF s = <<>> \/ ~IsDigit(Head(s)) THEN acc
    ELSE ParseDigits(Tail(s), 10 * acc + DigitVal(Head(s)))

\* parseInt(text): an optional sign and the leading decimal digits, NaN when
\* there are none
parseInt(s) ==
    LET neg == s # <<>> /\ Head(s) = "-"
        body == IF neg THEN Tail(s) ELSE s
    IN  IF body = <<>> \/ ~IsDigit(Head(body)) THEN NaN
        ELSE IF neg THEN 0 - ParseDigits(body, 0)
        ELSE ParseDigits(body, 0)

\* a === b on numbers: NaN equals nothing
StrictEq(a, b) == a # NaN /\ b # NaN /\ a = b

(***************************************************************************)
(* Buffers                                                                  *)
(***************************************************************************)
\* buf[i], zero-based; an index outside the buffer reads undefined, which the
\* 32-bit operators take as 0
ByteAt(buf, i) == IF i >= 0 /\ i < Len(buf) THEN buf[i + 1] ELSE 0

\* Buffer.alloc(8) then writeBigInt64BE(BigInt(counter)): the 8-byte big-endian
\* two's-complement encoding.  Counters here fit 32 bits, so the upper four
\* bytes are the sign extension.
writeBigInt64BE(counter) ==
    LET ext == IF counter < 0 THEN 255 ELSE 0
    IN  <<ext, ext, ext, ext,
          (counter \div 16777216) % 256,
          (counter \div 65536) % 256,
          (counter \div 256) % 256,
          counter % 256>>

\* digest('hex'): two lower-case hexadecimal digits per byte
ToHex(buf) ==
    [k \in 1..(2 * Len(buf)) |->
        IF k % 2 = 1 THEN HexDigits[(buf[(k + 1) \div 2] \div 16) + 1]
        ELSE HexDigits[(buf[k \div 2] % 16) + 1]]

\* Buffer.from(text, 'hex')
FromHex(text) ==
    [k \in 1..(Len(text) \div 2) |-> 16 * HexVal(text[2 * k - 1]) + HexVal(text[2 * k])]

\* crypto.createHmac('sha1', seed).update(counterBuf).digest('hex')
HmacHex(seed, counterBuf) == ToHex(hmac[<<seed, counterBuf>>])

(***************************************************************************)
(* generateCode                                                             *)
(***************************************************************************)
DefaultCodeLength == 6

\* const offset = tokenBuf[19] & 0xf
OffsetWide(tokenBuf) == BitAndNat(ByteAt(tokenBuf, 19), 31)
Offset(tokenBuf) == BitAndNat(ByteAt(tokenBuf, 19), 15)

\* the 31-bit value read at offset
Truncate(tokenBuf, offset) ==
    BitOr32(
        BitOr32(
            BitOr32(Shl32(BitAndNat(ByteAt(tokenBuf, offset), 127), 24),
                    Shl32(BitAndNat(ByteAt(tokenBuf, offset + 1), 255), 16)),
            Shl32(BitAndNat(ByteAt(tokenBuf, offset + 2), 255), 8)),
        BitAndNat(ByteAt(tokenBuf, offset + 3), 255))

\* parseInt(code.toString().slice(-len).padStart(len, '0'))
FoldText(code, len) == padStart(slice(toString(code), 0 - len), len, "0")
FoldHead(code, len) == parseInt(padStart(SubSeq(toString(code), 1, Min(len, Len(toString(code)))), len, "0"))
FoldNoSlice(code, len) == parseInt(padStart(toString(code), len, "0"))
Fold(code, len) == parseInt(FoldText(code, len))

\* generateCode(seed, counter, {length}), with what it computes on the way
generateCodeSteps(seed, counter, length) ==
    LET len == OrDefault(length, DefaultCodeLength)
        counterBuf == writeBigInt64BE(counter)
        token == HmacHex(seed, counterBuf)
        tokenBuf == FromHex(token)
        offset == Offset(tokenBuf)
        code == Truncate(tokenBuf, offset)
    IN  [len |-> len, tokenBuf |-> tokenBuf, offset |-> offset,
         read |-> {offset, offset + 1, offset + 2, offset + 3},
         code |-> code, ret |-> Fold(code, len)]

generateCode(seed, counter, length) == generateCodeSteps(seed, counter, length).ret

(***************************************************************************)
(* Inputs                                                                   *)
(***************************************************************************)
Seed == <<"s", "1">>

\* length options: undefined, or 1..MaxLen
Lengths == {None} \cup {Some(n) : n \in 1..MaxLen}

HmacKeys(counters) == {<<Seed, writeBigInt64BE(c)>> : c \in counters}

\* 20-byte digests: every offset nibble, either high nibble of the last byte,
\* and at the offset a first byte with and without its top bit and three more
\* bytes; the rest is filled with 0x55
FirstBytes == {0, 1, 127, 128, 255}
OtherBytes == {0, 255}
SampleDigest(off, hi, w) ==
    [j \in 1..20 |->
        IF j = 20 THEN 16 * hi + off
        ELSE IF j - 1 >= off /\ j - 1 <= off + 3 THEN w[j - off]
        ELSE 85]
DigestSamples ==
    {SampleDigest(off, hi, <<b0, b1, b2, b3>>) :
        off \in 0..15, hi \in {0, 15}, b0 \in FirstBytes,
        b1 \in OtherBytes, b2 \in OtherBytes, b3 \in OtherBytes}

CodeCounters == {0}

Idle ==
    /\ now = 0
    /\ op = "none"
    /\ args = <<>>
    /\ ret = <<>>
    /\ aux = <<>>
    /\ qrCalls = <<>>

(***************************************************************************)
(* SpecCode: one call of generateCode on every sample digest                *)
(***************************************************************************)
InitCode ==
    /\ \E d \in DigestSamples : hmac = [k \in HmacKeys(CodeCounters) |-> d]
    /\ Idle

GenerateCode(counter, length) ==
    LET steps == generateCodeSteps(Seed, counter, length)
    IN  /\ op' = "generateCode"
        /\ args' = [seed |-> Seed, counter |-> counter, length |-> length]
        /\ aux' = steps
        /\ ret' = steps.ret
        /\ UNCHANGED <<hmac, now, qrCalls>>

NextCode == op = "none" /\ \E counter \in CodeCounters, length \in Lengths : GenerateCode(counter, length)

SpecCode == InitCode /\ [][NextCode]_vars

\* 10^n where it fits 32 bits; a value below 2^31 is its own residue modulo
\* any larger power of ten
ModPow10(v, n) == IF n >= 10 THEN v ELSE v % (10 ^ n)

\* C4: generateCode returns an integer in [0, 10^length): its decimal text has
\* at most length characters and, zero-padded, exactly length digits; also
\* for lengths beyond the ten digits of a 31-bit integer.
C4_CodeInRange ==
    op = "generateCode" =>
        /\ ret >= 0
        /\ ModPow10(ret, aux.len) = ret
        /\ Len(toString(ret)) <= aux.len
        /\ Len(padStart(toString(ret), aux.len, "0")) = aux.len
        /\ \A k \in 1..aux.len : IsDigit(padStart(toString(ret), aux.len, "0")[k])

C4_Witness ==
    /\ op = "generateCode"
    /\ aux.len > 10
    /\ aux.code > 999999999
    /\ ret = aux.code

\* C9: dynamic truncation stays in bounds: the offset is in 0..15, the four
\* bytes read lie inside the 20-byte digest (index <= 18) and the value is in
\* [0, 2^31).
C9_TruncationInBounds ==
    op = "generateCode" =>
        /\ Len(aux.tokenBuf) = 20
        /\ aux.offset \in 0..15
        /\ \A i \in aux.read : i >= 0 /\ i <= 18
        /\ aux.code >= 0
        /\ aux.code <= 2147483647

C9_Witness ==
    /\ op = "generateCode"
    /\ aux.tokenBuf[20] = 255
    /\ aux.offset = 15
    /\ aux.tokenBuf[16] = 255
    /\ aux.code = 2147483647

\* C10: decimal folding: the number returned equals truncated mod 10^length,
\* also when truncated has fewer than length digits.
C10_FoldIsModulo ==
    op = "generateCode" => ret = ModPow10(aux.code, aux.len)

C10_Witness ==
    /\ op = "generateCode"
    /\ Len(toString(aux.code)) < aux.len
    /\ aux.code > 0
    /\ ret = aux.code

C10_WitnessFolded ==
    /\ op = "generateCode"
    /\ Len(toString(aux.code)) > aux.len
    /\ ret # aux.code

(***************************************************************************)
(* verifyHOTP, verifyTOTP                                                   *)
(***************************************************************************)
\* for (let i = counter - before; i <= counter + after; i++)
FirstCounterClamped(counter, before) == Max(counter - before, 0)
FirstCounter(counter, before) == counter - before

LastCounterExclusive(counter, after) == counter + after - 1
LastCounterOnePast(counter, after) == counter + after + 1
LastCounter(counter, after) == counter + after

\* the loop of verifyHOTP from i on: the result and the counters tried
RECURSIVE VerifyLoop(_, _, _, _, _, _)
VerifyLoop(seed, code, length, i, last, tried) ==
    IF i > last THEN [ret |-> FALSE, tried |-> tried]
    ELSE IF StrictEq(generateCode(seed, i, length), code)
         THEN [ret |-> TRUE, tried |-> Append(tried, i)]
         ELSE VerifyLoop(seed, code, length, i + 1, last, Append(tried, i))

\* verifyHOTP(seed, code, counter, {length, allowedBeforeDrift, allowedAfterDrift})
verifyHOTP(seed, code, counter, length, allowedBeforeDrift, allowedAfterDrift) ==
    LET before == OrDefault(allowedBeforeDrift, 0)
        after == OrDefault(allowedAfterDrift, 0)
    IN  VerifyLoop(seed, code, length, FirstCounter(counter, before),
                   LastCounter(counter, after), <<>>)

DefaultStep == 30

\* Math.floor(Date.now() / 1000 / step), for a step > 0
TimeCounterNoStep(millis, step) == millis \div 1000
TimeCounter(millis, step) == millis \div (1000 * step)

\* verifyTOTP(seed, code, {step, length}) at clock reading millis
verifyTOTP(seed, code, step, length, millis) ==
    LET counter == TimeCounter(millis, OrDefault(step, DefaultStep))
    IN  verifyHOTP(seed, code, counter, length, None, None)

(***************************************************************************)
(* SpecHOTP: one call of verifyHOTP under every keyed hash that maps the    *)
(* counters of the model to one of two digests                              *)
(***************************************************************************)
\* two digests whose codes differ at the default length (11 and 21) and agree
\* at length 1
DigestPool == {SampleDigest(0, 0, <<0, 0, 0, 11>>), SampleDigest(3, 15, <<128, 0, 0, 21>>)}

Drifts == {None, Some(0), Some(1), Some(2)}
HOTPCounters == (0 - 2)..(MaxCounter + 3)
HOTPLengths == {None, Some(1)}

\* the codes a caller may present: those of the counters of the model and one
\* that no counter has
CodesOf(counters, length) == {generateCode(Seed, i, length) : i \in counters} \cup {7}

InitHOTP ==
    /\ hmac \in [HmacKeys(HOTPCounters) -> DigestPool]
    /\ Idle

VerifyHOTP(code, counter, length, before, after) ==
    LET r == verifyHOTP(Seed, code, counter, length, before, after)
    IN  /\ op' = "verifyHOTP"
        /\ args' = [seed |-> Seed, code |-> code, counter |-> counter, length |-> length,
                    allowedBeforeDrift |-> before, allowedAfterDrift |-> after]
        /\ aux' = [tried |-> r.tried]
        /\ ret' = r.ret
        /\ UNCHANGED <<hmac, now, qrCalls>>

NextHOTP ==
    op = "none" /\ \E length \in HOTPLengths : \E code \in CodesOf(HOTPCounters, length) :
        \E counter \in 0..MaxCounter, before \in Drifts, after \in Drifts :
            VerifyHOTP(code, counter, length, before, after)

SpecHOTP == InitHOTP /\ [][NextHOTP]_vars

\* the window of a call
WindowOf(a) ==
    (a.counter - OrDefault(a.allowedBeforeDrift, 0))..(a.counter + OrDefault(a.allowedAfterDrift, 0))

\* C1: round trip: the code of counter c >= 0 at length L verifies at counter
\* c and length L with the default drifts.
C1_RoundTrip ==
    (/\ op = "verifyHOTP"
     /\ args.counter >= 0
     /\ args.allowedBeforeDrift = None /\ args.allowedAfterDrift = None
     /\ args.code = generateCode(args.seed, args.counter, args.length))
        => ret = TRUE

C1_Witness ==
    /\ op = "verifyHOTP"
    /\ args.counter > 0
    /\ args.length = Some(1)
    /\ args.allowedBeforeDrift = None /\ args.allowedAfterDrift = None
    /\ args.code = generateCode(args.seed, args.counter, args.length)
    /\ ret = TRUE

\* C2: verifyHOTP returns true if and only if the code of some counter in
\* [counter - allowedBeforeDrift, counter + allowedAfterDrift] equals the code
\* presented, negative counters included, and returns false otherwise.
C2_WindowExact ==
    op = "verifyHOTP" =>
        /\ ret \in BOOLEAN
        /\ ret = (\E i \in WindowOf(args) :
                    generateCode(args.seed, i, args.length) = args.code)

C2_Witness ==
    /\ op = "verifyHOTP"
    /\ OrDefault(args.allowedBeforeDrift, 0) > args.counter
    /\ ret = TRUE
    /\ \A i \in WindowOf(args) :
         generateCode(args.seed, i, args.length) = args.code => i < 0

C2_WitnessFalse ==
    /\ op = "verifyHOTP"
    /\ OrDefault(args.allowedBeforeDrift, 0) > args.counter
    /\ ret = FALSE

\* a call with allowedBeforeDrift 0 and allowedAfterDrift 2 at a counter >= 0
DriftZeroTwo ==
    /\ op = "verifyHOTP"
    /\ args.counter >= 0
    /\ OrDefault(args.allowedBeforeDrift, 0) = 0
    /\ args.allowedAfterDrift = Some(2)

CodeAt(i) == generateCode(args.seed, i, args.length)

\* C3 as stated: with drifts (0, 2) the code of counter c+2 is accepted and
\* the code of counter c+3 is rejected.
C3_AsStated ==
    DriftZeroTwo =>
        /\ (args.code = CodeAt(args.counter + 2) => ret = TRUE)
        /\ (args.code = CodeAt(args.counter + 3) => ret = FALSE)

\* C3 as amended: with drifts (0, 2) the code of counter c+2 is accepted, and
\* the code of counter c+3 is rejected unless it is also the code of one of
\* the counters c, c+1, c+2.
C3_DriftWindow ==
    DriftZeroTwo =>
        /\ (args.code = CodeAt(args.counter + 2) => ret = TRUE)
        /\ ((/\ args.code = CodeAt(args.counter + 3)
             /\ \A i \in args.counter..(args.counter + 2) : CodeAt(i) # args.code)
                => ret = FALSE)

C3_Witness ==
    /\ DriftZeroTwo
    /\ args.code = CodeAt(args.counter + 3)
    /\ \A i \in args.counter..(args.counter + 2) : CodeAt(i) # args.code
    /\ ret = FALSE

C3_WitnessAccepted ==
    /\ DriftZeroTwo
    /\ args.code = CodeAt(args.counter + 2)
    /\ \A i \in args.counter..(args.counter + 1) : CodeAt(i) # args.code
    /\ ret = TRUE

(***************************************************************************)
(* SpecTOTP: the clock runs, then one call of verifyTOTP                    *)
(***************************************************************************)
TOTPCounters == 0..MaxSeconds
Steps == {None} \cup {Some(n) : n \in 1..MaxStep}

InitTOTP ==
    /\ hmac \in [HmacKeys(TOTPCounters) -> DigestPool]
    /\ Idle

\* the clock is read at, just after and just before every whole second
Tick ==
    /\ op = "none"
    /\ now < 1000 * MaxSeconds + 999
    /\ now' = IF now % 1000 = 1 THEN now + 998 ELSE now + 1
    /\ UNCHANGED <<hmac, op, args, ret, aux, qrCalls>>

VerifyTOTP(code, step, length) ==
    LET r == verifyTOTP(Seed, code, step, length, now)
    IN  /\ op' = "verifyTOTP"
        /\ args' = [seed |-> Seed, code |-> code, step |-> step, length |-> length]
        /\ aux' = [tried |-> r.tried]
        /\ ret' = r.ret
        /\ UNCHANGED <<hmac, now, qrCalls>>

CallTOTP ==
    op = "none" /\ \E length \in HOTPLengths : \E code \in CodesOf(TOTPCounters, length) :
        \E step \in Steps : VerifyTOTP(code, step, length)

NextTOTP == Tick \/ CallTOTP

SpecTOTP == InitTOTP /\ [][NextTOTP]_vars

\* the clock reading in unix seconds and the time counter of a verifyTOTP call
UnixSeconds == now \div 1000
StepOf(a) == OrDefault(a.step, DefaultStep)

\* C5: at clock reading t (unix seconds) verifyTOTP returns what verifyHOTP
\* returns for counter floor(t / step) with both drifts 0: the code of that
\* counter is accepted, and no other counter is tried.
C5_TimeCounter ==
    op = "verifyTOTP" =>
        LET k == UnixSeconds \div StepOf(args)
        IN  /\ ret = verifyHOTP(args.seed, args.code, k, args.length, None, None).ret
            /\ ret = (generateCode(args.seed, k, args.length) = args.code)
            /\ aux.tried = <<k>>

C5_Witness ==
    /\ op = "verifyTOTP"
    /\ now % 1000 = 999
    /\ args.step = Some(2)
    /\ UnixSeconds \div 2 > 0
    /\ aux.tried = <<UnixSeconds \div 2>>
    /\ ret = TRUE

(***************************************************************************)
(* Characters                                                               *)
(***************************************************************************)
\* the printable ASCII characters, codes 32..126 (the double quote, the
\* backslash and the backtick by name)
Ascii ==
    <<
    " ", "!", "QUOTE", "#", "$", "%", "&", "'", "(", ")", "*", "+", ",", "-", ".", "/",
    "0", "1", "2", "3", "4", "5", "6", "7", "8", "9", ":", ";", "<", "=", ">", "?",
    "@", "A", "B", "C", "D", "E", "F", "G", "H", "I", "J", "K", "L", "M", "N", "O",
    "P", "Q", "R", "S", "T", "U", "V", "W", "X", "Y", "Z", "[", "BACKSLASH", "]", "^", "_",
    "BACKTICK", "a", "b", "c", "d", "e", "f", "g", "h", "i", "j", "k", "l", "m", "n", "o",
    "p", "q", "r", "s", "t", "u", "v", "w", "x", "y", "z", "{", "|", "}", "~"
    >>

\* String.fromCharCode(n)
fromCharCode(n) == IF n >= 32 /\ n <= 126 THEN Ascii[n - 31] ELSE "U+" \o ToString(n)

\* the UTF-8 byte of an ASCII character
CharCode(ch) == 31 + (CHOOSE k \in 1..95 : Ascii[k] = ch)

\* a character that is half of a surrogate pair on its own
LoneSurrogate == "U+D800"

(***************************************************************************)
(* generateSeed                                                             *)
(***************************************************************************)
DefaultSeedLength == 48

\* const newChar = buf.readUInt8(0) % 36
NewChar(byte) == byte % 36

\* if (newChar < 10) seed += newChar; else seed += String.fromCharCode(newChar + 87)
SeedCharOffByOne(newChar) ==
    IF newChar < 10 THEN toString(newChar) ELSE <<fromCharCode(newChar + 86)>>
SeedChar(newChar) ==
    IF newChar < 10 THEN toString(newChar) ELSE <<fromCharCode(newChar + 87)>>

\* the k-th byte crypto.randomBytes(1) returns, of a stream that repeats
RandomByte(rng, k) == rng[((k - 1) % Len(rng)) + 1]

\* the while loop of generateSeed; crypto.randomBytes(1) reads the next byte of
\* the stream rng
RECURSIVE SeedLoop(_, _, _, _)
SeedLoop(len, seed, rng, drawn) ==
    IF ~(Len(seed) < len) THEN [seed |-> seed, drawn |-> drawn]
    ELSE LET buf == <<RandomByte(rng, drawn + 1)>>
             newChar == NewChar(buf[1])
             grown == seed \o SeedChar(newChar)
         IN  IF Len(grown) = len THEN [seed |-> grown, drawn |-> drawn + 1]
             ELSE SeedLoop(len, grown, rng, drawn + 1)

\* generateSeed({length}) on the random stream rng
generateSeed(length, rng) == SeedLoop(OrDefault(length, DefaultSeedLength), <<>>, rng, 0)

(***************************************************************************)
(* generateURL, generateQRCode                                              *)
(***************************************************************************)
Base32Alphabet ==
    <<"A", "B", "C", "D", "E", "F", "G", "H", "I", "J", "K", "L", "M", "N", "O", "P",
      "Q", "R", "S", "T", "U", "V", "W", "X", "Y", "Z", "2", "3", "4", "5", "6", "7">>

\* bit j (from 0, most significant first) of a byte sequence, 0 past its end
BitOf(bytes, j) ==
    IF j < 8 * Len(bytes) THEN (bytes[(j \div 8) + 1] \div (2 ^ (7 - (j % 8)))) % 2 ELSE 0

\* base32.encode(text) of hi-base32 (RFC 4648): five bits per character, the
\* last group filled with zero bits, '=' up to a multiple of eight characters
Base32Encode(text) ==
    LET bytes == [k \in 1..Len(text) |-> CharCode(text[k])]
        n == Len(bytes)
        nChars == (8 * n + 4) \div 5
        total == 8 * ((n + 4) \div 5)
        value(k) == 16 * BitOf(bytes, 5 * (k - 1)) + 8 * BitOf(bytes, 5 * (k - 1) + 1)
                    + 4 * BitOf(bytes, 5 * (k - 1) + 2) + 2 * BitOf(bytes, 5 * (k - 1) + 3)
                    + BitOf(bytes, 5 * (k - 1) + 4)
    IN  [k \in 1..total |-> IF k <= nChars THEN Base32Alphabet[value(k) + 1] ELSE "="]

\* .replace(/=/g, '')
KeepPadding(text) == text
StripPadding(text) == SelectSeq(text, LAMBDA ch : ch # "=")

\* the characters encodeURIComponent leaves as they are
Unreserved ==
    {Ascii[k] : k \in (17..26) \cup (34..59) \cup (66..91)}
        \cup {"-", "_", ".", "!", "~", "*", "'", "(", ")"}

UpperHex == <<"0", "1", "2", "3", "4", "5", "6", "7", "8", "9", "A", "B", "C", "D", "E", "F">>

\* encodeURIComponent(text): a URIError on a lone surrogate, else every
\* character not unreserved becomes % and two upper-case hexadecimal digits
RECURSIVE EncodeChars(_)
EncodeChars(text) ==
    IF text = <<>> THEN <<>>
    ELSE (IF Head(text) \in Unreserved THEN <<Head(text)>>
          ELSE <<"%", UpperHex[(CharCode(Head(text)) \div 16) + 1],
                 UpperHex[(CharCode(Head(text)) % 16) + 1]>>)
         \o EncodeChars(Tail(text))

encodeURIComponent(text) ==
    IF \E k \in 1..Len(text) : text[k] = LoneSurrogate THEN Throw("URIError")
    ELSE Ok(EncodeChars(text))

\* a JavaScript condition on an optional string: undefined and '' are falsy
Truthy(o) == o # None /\ OrDefault(o, <<>>) # <<>>

UrlPrefix == <<"o", "t", "p", "a", "u", "t", "h", ":", "/", "/", "t", "o", "t", "p", "/">>
IssuerParam == <<"?", "i", "s", "s", "u", "e", "r", "=">>
SecretParam == <<"&", "s", "e", "c", "r", "e", "t", "=">>

\* generateURL(seed, {issuer, account})
generateURL(seed, issuer, account) ==
    LET encodedSeed == StripPadding(Base32Encode(seed))
        i == IF Truthy(issuer) THEN encodeURIComponent(OrDefault(issuer, <<>>)) ELSE Ok(<<>>)
        a == IF Truthy(account) THEN encodeURIComponent(OrDefault(account, <<>>)) ELSE Ok(<<>>)
        s == encodeURIComponent(encodedSeed)
    IN  IF i.tag = "throw" THEN i
        ELSE IF a.tag = "throw" THEN a
        ELSE IF s.tag = "throw" THEN s
        ELSE Ok(UrlPrefix
                \o (IF Truthy(issuer) THEN IssuerParam \o i.val ELSE <<>>)
                \o (IF Truthy(account) THEN a.val ELSE <<>>)
                \o SecretParam \o s.val)

\* if (!options.seed && !options.url)
MissingEither(seed, url) == ~Truthy(seed) \/ ~Truthy(url)
MissingBoth(seed, url) == ~Truthy(seed) /\ ~Truthy(url)

\* generateQRCode(options) up to its await: what it throws, or the text it
\* hands to qr.toDataURL
generateQRCodeCall(o) ==
    IF MissingBoth(o.seed, o.url) THEN Throw("InvalidArgument")
    ELSE IF Truthy(o.url) THEN [tag |-> "await", val |-> OrDefault(o.url, <<>>)]
    ELSE LET u == generateURL(OrDefault(o.seed, <<>>), o.issuer, o.account)
         IN  IF u.tag = "throw" THEN u ELSE [tag |-> "await", val |-> u.val]

(***************************************************************************)
(* SpecSeed: one call of generateSeed on every sample random stream         *)
(***************************************************************************)
\* random bytes: both ends of the range, the values around the digit/letter
\* boundary, and the values around the modulus
ByteSamples == {0, 9, 10, 35, 36, 255}

\* the random source: every stream of MaxSeedLen + 1 bytes, repeated
RandomStreams == [1..(MaxSeedLen + 1) -> ByteSamples]

SeedLengths == {None} \cup {Some(n) : n \in 0..MaxSeedLen}

InitPure ==
    /\ hmac = <<>>
    /\ Idle

GenerateSeed(length, rng) ==
    LET r == generateSeed(length, rng)
    IN  /\ op' = "generateSeed"
        /\ args' = [length |-> length, rng |-> rng]
        /\ aux' = [drawn |-> r.drawn]
        /\ ret' = r.seed
        /\ UNCHANGED <<hmac, now, qrCalls>>

NextSeed ==
    op = "none" /\ \E length \in SeedLengths, rng \in RandomStreams : GenerateSeed(length, rng)

SpecSeed == InitPure /\ [][NextSeed]_vars

Base36 ==
    <<"0", "1", "2", "3", "4", "5", "6", "7", "8", "9", "a", "b", "c", "d", "e", "f", "g", "h",
      "i", "j", "k", "l", "m", "n", "o", "p", "q", "r", "s", "t", "u", "v", "w", "x", "y", "z">>

\* C7: for a length >= 1, generateSeed draws exactly length bytes and returns
\* length characters, the k-th the base-36 symbol of the k-th byte mod 36.
C7_SeedFromBytes ==
    (op = "generateSeed" /\ OrDefault(args.length, DefaultSeedLength) >= 1) =>
        LET len == OrDefault(args.length, DefaultSeedLength)
        IN  /\ aux.drawn = len
            /\ Len(ret) = len
            /\ \A k \in 1..len : ret[k] = Base36[(RandomByte(args.rng, k) % 36) + 1]

C7_Witness ==
    /\ op = "generateSeed"
    /\ args.length = Some(MaxSeedLen)
    /\ aux.drawn = MaxSeedLen
    /\ RandomByte(args.rng, 1) = 36 /\ ret[1] = "0"
    /\ RandomByte(args.rng, 2) = 35 /\ ret[2] = "z"
    /\ RandomByte(args.rng, 3) = 10 /\ ret[3] = "a"

C7_WitnessDefault ==
    /\ op = "generateSeed"
    /\ args.length = None
    /\ Len(ret) = 48

(***************************************************************************)
(* SpecURL: one call of generateURL or of generateQRCode                    *)
(***************************************************************************)
\* the strings of at most n characters over an alphabet
StringsUpTo(alphabet, n) == UNION {[1..m -> alphabet] : m \in 0..n}

\* issuer and account: a plain character, one that is percent-encoded, and a
\* lone surrogate
UrlStrings == StringsUpTo({"a", "&", LoneSurrogate}, MaxStrLen)
OptionalStrings == {None} \cup {Some(t) : t \in UrlStrings}

\* secrets: short ones, whose base32 text is padded, and one of five
\* characters, whose base32 text is not
Secrets == StringsUpTo({"a", "7"}, MaxSecretLen) \cup {<<"h", "e", "l", "l", "o">>}

\* what generateQRCode is given
QRSeeds == {None} \cup {Some(t) : t \in Secrets}
QRUrls == {None, Some(<<>>), Some(<<"u", ":", "x">>)}
QRStrings == {None, Some(<<>>), Some(<<"a", "&">>), Some(<<LoneSurrogate>>)}

GenerateURL(seed, issuer, account) ==
    /\ op' = "generateURL"
    /\ args' = [seed |-> seed, issuer |-> issuer, account |-> account]
    /\ aux' = <<>>
    /\ ret' = generateURL(seed, issuer, account)
    /\ UNCHANGED <<hmac, now, qrCalls>>

\* generateQRCode up to its await
GenerateQRCode(options) ==
    LET r == generateQRCodeCall(options)
    IN  /\ op' = "generateQRCode"
        /\ args' = options
        /\ aux' = <<>>
        /\ qrCalls' = IF r.tag = "await" THEN <<r.val>> ELSE <<>>
        /\ ret' = IF r.tag = "await" THEN [tag |-> "pending", val |-> <<>>] ELSE r
        /\ UNCHANGED <<hmac, now>>

\* qr.toDataURL settles: the data URL of the text, or the renderer's error
QRSettle ==
    /\ op = "generateQRCode"
    /\ ret.tag = "pending"
    /\ \E rendered \in BOOLEAN :
        ret' = IF rendered THEN Ok(<<"data:">> \o qrCalls[1]) ELSE Throw("QRError")
    /\ UNCHANGED <<hmac, now, op, args, aux, qrCalls>>

CallURL ==
    op = "none" /\ \E seed \in Secrets, issuer \in OptionalStrings, account \in OptionalStrings :
        GenerateURL(seed, issuer, account)

CallQRCode ==
    op = "none" /\ \E seed \in QRSeeds, url \in QRUrls, issuer \in QRStrings, account \in QRStrings :
        GenerateQRCode([seed |-> seed, url |-> url, issuer |-> issuer, account |-> account])

NextURL == CallURL \/ CallQRCode \/ QRSettle

SpecURL == InitPure /\ [][NextURL]_vars

Supplied(o) == o # None
NonEmpty(o) == \E t \in o : t # <<>>
WellFormed(o) == \A t \in o : \A k \in 1..Len(t) : t[k] # LoneSurrogate
InvalidArgument == ret.tag = "throw" /\ ret.val = "InvalidArgument"

\* C6 as stated: with neither seed nor url supplied generateQRCode fails with
\* InvalidArgument and the renderer is never invoked; with one supplied it does
\* not fail with that error.
C6_AsStated ==
    op = "generateQRCode" =>
        /\ (~Supplied(args.seed) /\ ~Supplied(args.url)) => (InvalidArgument /\ qrCalls = <<>>)
        /\ (Supplied(args.seed) \/ Supplied(args.url)) => ~InvalidArgument

\* C6 as amended: with neither a non-empty seed nor a non-empty url
\* generateQRCode fails with InvalidArgument and the renderer is never invoked;
\* with a non-empty seed or a non-empty url it does not fail with that error.
C6_SeedOrUrlRequired ==
    op = "generateQRCode" =>
        /\ (~NonEmpty(args.seed) /\ ~NonEmpty(args.url)) => (InvalidArgument /\ qrCalls = <<>>)
        /\ (NonEmpty(args.seed) \/ NonEmpty(args.url)) => ~InvalidArgument

C6_Witness ==
    /\ op = "generateQRCode"
    /\ NonEmpty(args.seed) /\ ~Supplied(args.url)
    /\ ret.tag = "ok"
    /\ Len(qrCalls) = 1

C6_WitnessRejected ==
    /\ op = "generateQRCode"
    /\ ~Supplied(args.seed) /\ ~Supplied(args.url)
    /\ InvalidArgument
    /\ qrCalls = <<>>

\* the text C8 describes, given which of issuer and account count as present
UrlText(a, withIssuer, withAccount) ==
    UrlPrefix
    \o (IF withIssuer THEN IssuerParam \o EncodeChars(OrDefault(a.issuer, <<>>)) ELSE <<>>)
    \o (IF withAccount THEN EncodeChars(OrDefault(a.account, <<>>)) ELSE <<>>)
    \o SecretParam \o SelectSeq(Base32Encode(a.seed), LAMBDA ch : ch # "=")

StartsWith(t, prefix) == Len(t) >= Len(prefix) /\ SubSeq(t, 1, Len(prefix)) = prefix
EndsWith(t, suffix) ==
    Len(t) >= Len(suffix) /\ SubSeq(t, Len(t) - Len(suffix) + 1, Len(t)) = suffix

\* C8 as stated: generateURL returns the prefix, then '?issuer=' and the
\* encoded issuer if an issuer is present, then the encoded account if an
\* account is present, then '&secret=' and the unpadded base32 text of the
\* secret, whatever issuer and account are.
C8_AsStated ==
    op = "generateURL" =>
        /\ ret.tag = "ok"
        /\ ret.val = UrlText(args, Supplied(args.issuer), Supplied(args.account))

\* C8 as amended: an issuer or account counts as present when it is not the
\* empty string, and neither holds a lone surrogate (on which the encoding
\* raises a URIError).
C8_UrlText ==
    (op = "generateURL" /\ WellFormed(args.issuer) /\ WellFormed(args.account)) =>
        /\ ret.tag = "ok"
        /\ ret.val = UrlText(args, NonEmpty(args.issuer), NonEmpty(args.account))
        /\ StartsWith(ret.val, UrlPrefix)
        /\ EndsWith(ret.val, SecretParam \o SelectSeq(Base32Encode(args.seed), LAMBDA ch : ch # "="))

C8_Witness ==
    /\ op = "generateURL"
    /\ args.seed = <<"a">>
    /\ args.issuer = Some(<<"a", "&">>)
    /\ args.account = Some(<<"&">>)
    /\ ret.tag = "ok"
    /\ ret.val = UrlPrefix \o IssuerParam \o <<"a", "%", "2", "6", "%", "2", "6">>
                 \o SecretParam \o <<"M", "E">>

C8_WitnessEmptyIssuer ==
    /\ op = "generateURL"
    /\ args.issuer = Some(<<>>)
    /\ ret.tag = "ok"
    /\ ~StartsWith(ret.val, UrlPrefix \o IssuerParam)

====
